---- MODULE Spec2Model ----
(***************************************************************************)
(* Model of the Viam vision service backed by Gemini.  The repository      *)
(* holds two variants of the same class Vision:                            *)
(*   gemini/src/models/vision.py  (variant "gemini")                       *)
(*   src/models/vision.py         (variant "src")                          *)
(* Definitions prefixed G_ model the first file, S_ the second.            *)
(*                                                                         *)
(* A Python object is a function from the names of the attributes it has   *)
(* to their values; reading an attribute it lacks raises AttributeError.   *)
(* A Python dict is a function from its keys; indexing a missing key       *)
(* raises KeyError.  A coroutine is split at the awaits that really        *)
(* suspend: one action per segment between two suspension points.          *)
(***************************************************************************)
EXTENDS Naturals, Sequences, FiniteSets, TLC

VARIABLES
  variant,   \* which of the two source files is loaded: "gemini" or "src"
  adapter,   \* the Vision object's attributes (self.__dict__)
  req,       \* the coroutine in flight, suspended at an await, or idle
  last       \* what the most recent finished call did and returned

vars == <<variant, adapter, req, last>>

----------------------------------------------------------------------------
(* Bounds and value domains *)

MaxTextLen == 3
MaxCount == 2

Variants == {"gemini", "src"}
ApiKeys == {"k1", "k2"}
ModelIds == {"gemini-2.0-flash", "gemini-1.5-pro"}
Cameras == {"cam1", "cam2"}
Prompts == {"describe", "count"}
Chars == {" ", "a"}
Whitespace == {" "}

\* Frames a camera can hand back: bytes PIL can decode, and bytes it cannot.
Frames == {"jpeg", "garbage"}

ValuesOf(k) ==
  CASE k = "api_key" -> ApiKeys
    [] k = "model_id" -> ModelIds
    [] k = "model" -> ModelIds
    [] k = "camera_name" -> Cameras
    [] k = "prompt" -> Prompts

\* Every attribute map over a subset of the given keys.
ConfigMaps(keys) ==
  UNION { { f \in [S -> ApiKeys \cup ModelIds \cup Cameras \cup Prompts] :
              \A k \in S : f[k] \in ValuesOf(k) } : S \in SUBSET keys }

\* Every text of at most MaxTextLen characters.
Texts == UNION { [1..n -> Chars] : n \in 0..MaxTextLen }

----------------------------------------------------------------------------
(* Python helpers *)

NoError == [type |-> "none", arg |-> "none"]
Err(t, a) == [type |-> t, arg |-> a]

HasAttr(obj, k) == k \in DOMAIN obj
SetAttr(obj, k, v) == [x \in (DOMAIN obj) \cup {k} |-> IF x = k THEN v ELSE obj[x]]

\* str.strip(): drop leading and trailing whitespace.
RECURSIVE LStrip(_)
LStrip(s) == IF s # <<>> /\ Head(s) \in Whitespace THEN LStrip(Tail(s)) ELSE s

RECURSIVE RStrip(_)
RStrip(s) ==
  IF s # <<>> /\ s[Len(s)] \in Whitespace THEN RStrip(SubSeq(s, 1, Len(s) - 1)) ELSE s

Strip(s) == RStrip(LStrip(s))

\* viam.utils.from_dm_from_extra(extra): whether extra carries the
\* data-manager marker.  extra is modelled by the set of keys set to true.
from_dm_from_extra(extra) == "fromDataManagement" \in extra
Extras == {{}, {"fromDataManagement"}}

\* Outbound calls, in the order a request makes them.
GetImage(cam) == [call |-> "get_image", camera |-> cam]
GotImage(frame) == [call |-> "get_image returned", frame |-> frame]
GenerateContent(client, model, prompt) ==
  [call |-> "generate_content", client |-> client, model |-> model, prompt |-> prompt]

Failed(e) == [call |-> "generate_content raised", error |-> e]

\* What the collaborators answer.
CameraResults ==
  { [ok |-> TRUE, frame |-> f, error |-> NoError] : f \in Frames } \cup
  { [ok |-> FALSE, frame |-> "none", error |-> Err("CameraError", "get_image")] }
ModelErrors == { Err("ServerError", "generate_content"), Err("ClientError", "generate_content") }
ResponsesOver(texts) ==
  { [ok |-> TRUE, text |-> t, error |-> NoError] : t \in texts } \cup
  { [ok |-> FALSE, text |-> <<>>, error |-> e] : e \in ModelErrors }

----------------------------------------------------------------------------
(* validate_config *)

G_RequiredKeys == <<"model_id", "api_key", "camera_name">>
S_RequiredKeys == <<"api_key", "camera_name", "model", "prompt">>

\* for key in keys: if key not in fields: raise ValueError(...'{key}')
RECURSIVE FirstMissing(_, _, _)
FirstMissing(fields, keys, i) ==
  IF i > Len(keys) THEN "none"
  ELSE IF keys[i] \notin DOMAIN fields THEN keys[i]
  ELSE FirstMissing(fields, keys, i + 1)

G_validate_config(config) ==
  LET k == FirstMissing(config, G_RequiredKeys, 1) IN
    IF k # "none"
    THEN [error |-> Err("ValueError", k), value |-> <<>>]
    ELSE [error |-> NoError, value |-> <<>>]

S_validate_config(config) ==
  LET k == FirstMissing(config, S_RequiredKeys, 1) IN
    IF k # "none"
    THEN [error |-> Err("ValueError", k), value |-> <<>>]
    ELSE [error |-> NoError, value |-> <<config["camera_name"]>>]

----------------------------------------------------------------------------
(* reconfigure *)

\* self.<k> = cfg[<k>] for each k in order; the first missing key raises
\* KeyError and leaves the assignments already made in place.
RECURSIVE AssignAll(_, _, _, _)
AssignAll(self, cfg, keys, i) ==
  IF i > Len(keys) THEN [self |-> self, error |-> NoError]
  ELSE IF keys[i] \notin DOMAIN cfg THEN [self |-> self, error |-> Err("KeyError", keys[i])]
  ELSE AssignAll(SetAttr(self, keys[i], cfg[keys[i]]), cfg, keys, i + 1)

\* genai.Client(api_key=self.api_key, ...): a client bound to that key.
Client(api_key) == [api_key |-> api_key]

G_AssignOrder == <<"api_key", "model_id", "camera_name">>
S_AssignOrder == <<"api_key", "camera_name", "model", "prompt">>

G_reconfigure(self, cfg, deps) ==
  LET r == AssignAll(self, cfg, G_AssignOrder, 1) IN
    IF r.error # NoError THEN r
    ELSE LET s1 == SetAttr(r.self, "_deps", deps) IN
      [self |-> SetAttr(s1, "client", Client(s1["api_key"])), error |-> NoError]

S_reconfigure(self, cfg, deps) ==
  LET r == AssignAll(self, cfg, S_AssignOrder, 1) IN
    IF r.error # NoError THEN r
    ELSE LET s1 == SetAttr(r.self, "_deps", deps) IN
      [self |-> SetAttr(s1, "client", Client(s1["api_key"])), error |-> NoError]

----------------------------------------------------------------------------
(* The model call *)

\* How a segment of a coroutine ends: it raises, it returns, or it suspends
\* at an await.  events are the outbound calls made so far.
Raised(e, events) == [error |-> e, value |-> "none", events |-> events, pending |-> FALSE]
Returned(v, events) == [error |-> NoError, value |-> v, events |-> events, pending |-> FALSE]
Awaiting(events) == [error |-> NoError, value |-> "none", events |-> events, pending |-> TRUE]

\* gemini/: _gemini reads self.client, then self.model_id, calls the blocking
\* client, strips the text; the except clause logs and re-raises.
G_gemini(self, prompt, resp) ==
  IF ~HasAttr(self, "client") THEN Raised(Err("AttributeError", "client"), <<>>)
  ELSE IF ~HasAttr(self, "model_id") THEN Raised(Err("AttributeError", "model_id"), <<>>)
  ELSE LET ev == <<GenerateContent(self["client"], self["model_id"], prompt)>> IN
    IF ~resp.ok THEN Raised(resp.error, Append(ev, Failed(resp.error)))
    ELSE Returned(Strip(resp.text), ev)

\* src/: _gemini up to its await: reads self.client, self.model, issues the
\* asynchronous call.
S_gemini_issue(self, prompt) ==
  IF ~HasAttr(self, "client") THEN Raised(Err("AttributeError", "client"), <<>>)
  ELSE IF ~HasAttr(self, "model") THEN Raised(Err("AttributeError", "model"), <<>>)
  ELSE Awaiting(<<GenerateContent(self["client"], self["model"], prompt)>>)

\* src/: _gemini after its await.
S_gemini(resp, events) ==
  IF ~resp.ok THEN Raised(resp.error, Append(events, Failed(resp.error)))
  ELSE Returned(Strip(resp.text), events)

----------------------------------------------------------------------------
(* get_classifications, get_description *)

G_ClassifyPrompt == "Describe this image in one concise English sentence."

\* A get_classifications that honours the requested count.
Mut_G_get_classifications(self, image, count, resp) ==
  LET g == G_gemini(self, G_ClassifyPrompt, resp) IN
    IF g.error # NoError THEN g
    ELSE Returned([i \in 1..count |-> [label |-> g.value, confidence |-> 1]], g.events)

G_get_classifications(self, image, count, resp) ==
  LET g == G_gemini(self, G_ClassifyPrompt, resp) IN
    IF g.error # NoError THEN g
    ELSE Returned(<<[label |-> g.value, confidence |-> 1]>>, g.events)

\* src/: Image.open on the frame's bytes, then the blocking client with
\* self.model and self.prompt.
S_get_classifications(self, image, count, resp) ==
  IF image # "jpeg" THEN Raised(Err("UnidentifiedImageError", image), <<>>)
  ELSE IF ~HasAttr(self, "client") THEN Raised(Err("AttributeError", "client"), <<>>)
  ELSE IF ~HasAttr(self, "model") THEN Raised(Err("AttributeError", "model"), <<>>)
  ELSE IF ~HasAttr(self, "prompt") THEN Raised(Err("AttributeError", "prompt"), <<>>)
  ELSE LET ev == <<GenerateContent(self["client"], self["model"], self["prompt"])>> IN
    IF ~resp.ok THEN Raised(resp.error, Append(ev, Failed(resp.error)))
    ELSE Returned(<<[class_name |-> Strip(resp.text), confidence |-> 1]>>, ev)

G_get_description(self, image, prompt, resp) == G_gemini(self, prompt, resp)

S_get_description_issue(self, image, prompt) == S_gemini_issue(self, prompt)

----------------------------------------------------------------------------
(* capture_all_from_camera *)

\* A lookup that does not fail on a missing camera before the fetch.
Mut_capture_all_lookup(self, camera_name) ==
  IF ~HasAttr(self, "_deps") THEN Raised(Err("AttributeError", "_deps"), <<>>)
  ELSE Awaiting(<<GetImage(camera_name)>>)

\* Up to the await of camera.get_image: the dependency lookup.
capture_all_lookup(self, camera_name) ==
  IF ~HasAttr(self, "_deps") THEN Raised(Err("AttributeError", "_deps"), <<>>)
  ELSE IF camera_name \notin self["_deps"] THEN Raised(Err("KeyError", camera_name), <<>>)
  ELSE Awaiting(<<GetImage(camera_name)>>)

\* any(c.label for c in classifications)
AnyLabel(classifications) ==
  \E i \in 1..Len(classifications) : classifications[i].label # <<>>

CaptureAllResult(image, classifications) ==
  [image |-> image, classifications |-> classifications,
   detections |-> <<>>, objects |-> <<>>]

\* gemini/: capture_all_from_camera from the camera's answer on.  r holds the
\* coroutine's locals.  The field classified is the list get_classifications
\* returned, before any clear().
G_capture_all_from_camera(self, r, cam, resp) ==
  IF ~cam.ok THEN Raised(cam.error, r.events) @@ [classified |-> <<>>]
  ELSE
    LET ev == Append(r.events, GotImage(cam.frame))
        image == IF r.return_image THEN cam.frame ELSE "none"
        c == G_get_classifications(self, cam.frame, 1, resp)
        kept == IF r.return_classifications THEN c.value ELSE <<>>
    IN IF c.error # NoError THEN Raised(c.error, ev \o c.events) @@ [classified |-> <<>>]
       ELSE IF from_dm_from_extra(r.extra) /\ ~AnyLabel(kept)
         THEN Raised(Err("NoCaptureToStoreError", "none"), ev \o c.events)
                @@ [classified |-> c.value]
       ELSE Returned(CaptureAllResult(image, kept), ev \o c.events)
                @@ [classified |-> c.value]

\* src/: capture_all_from_camera from the camera's answer on.
S_capture_all_from_camera(self, r, cam, resp) ==
  IF ~cam.ok THEN Raised(cam.error, r.events) @@ [classified |-> <<>>]
  ELSE
    LET ev == Append(r.events, GotImage(cam.frame))
        c == S_get_classifications(self, cam.frame, 1, resp)
    IN IF c.error # NoError THEN Raised(c.error, ev \o c.events) @@ [classified |-> <<>>]
       ELSE Returned(CaptureAllResult(cam.frame, c.value), ev \o c.events)
                @@ [classified |-> c.value]

\* get_classifications_from_camera: capture_all_from_camera(cam,
\* return_image=True, return_classifications=True), then .classifications.
classifications_of(capture) ==
  IF capture.error # NoError THEN capture
  ELSE [capture EXCEPT !.value = capture.value.classifications]

\* gemini/: get_description_from_camera after the capture: get_description
\* on frame.image with the caller's prompt, through the blocking client.
G_describe_capture(self, r, capture, resp) ==
  IF capture.error # NoError THEN capture
  ELSE LET d == G_get_description(self, capture.value.image, r.prompt, resp) IN
    [d EXCEPT !.events = capture.events \o d.events] @@ [classified |-> capture.classified]

\* src/: the same up to the await inside _gemini.
S_describe_capture(self, r, capture) ==
  IF capture.error # NoError THEN capture
  ELSE LET d == S_get_description_issue(self, capture.value.image, r.prompt) IN
    [d EXCEPT !.events = capture.events \o d.events] @@ [classified |-> capture.classified]

----------------------------------------------------------------------------
(* The RPCs that are not implemented *)

\* Each takes any arguments (*a, **k) and raises at once; self is handed back
\* as the call leaves it.
get_detections_from_camera(self, a) ==
  Raised(Err("NotImplementedError", "none"), <<>>) @@ [self |-> self]
get_detections(self, a) ==
  Raised(Err("NotImplementedError", "none"), <<>>) @@ [self |-> self]
get_object_point_clouds(self, a) ==
  Raised(Err("NotImplementedError", "none"), <<>>) @@ [self |-> self]
\* A do_command that answers with an empty result instead of raising.
Mut_do_command(self, a) == Returned(<<>>, <<>>) @@ [self |-> self]
do_command(self, a) ==
  Raised(Err("NotImplementedError", "none"), <<>>) @@ [self |-> self]

----------------------------------------------------------------------------
(* State *)

\* The object as EasyResource.new builds it before reconfigure runs.
NewVision == [name |-> "vision"]

Idle == [pc |-> "idle"]
Nothing == [op |-> "none"]

Init ==
  /\ variant \in Variants
  /\ adapter = NewVision
  /\ req = Idle
  /\ last = Nothing

\* The attribute maps and dependency maps the host can pass in.
G_Configs == ConfigMaps({"model_id", "api_key", "camera_name"})
S_Configs == ConfigMaps({"api_key", "camera_name", "model", "prompt"})
Configs == IF variant = "gemini" THEN G_Configs ELSE S_Configs
\* The dependency maps the host can pass in: without and with cam1 (cam2 is
\* in neither).
DepSets == {{}, {"cam1"}}

\* The configurations the request specification reconfigures with: two
\* complete ones that differ in every field, and one that lacks its last key.
G_CfgA == [api_key |-> "k1", model_id |-> "gemini-2.0-flash", camera_name |-> "cam1"]
G_CfgB == [api_key |-> "k2", model_id |-> "gemini-1.5-pro", camera_name |-> "cam2"]
G_CfgShort == [api_key |-> "k2", model_id |-> "gemini-1.5-pro"]
S_CfgA == [api_key |-> "k1", camera_name |-> "cam1", model |-> "gemini-2.0-flash",
           prompt |-> "describe"]
S_CfgB == [api_key |-> "k2", camera_name |-> "cam2", model |-> "gemini-1.5-pro",
           prompt |-> "count"]
S_CfgShort == [api_key |-> "k2", camera_name |-> "cam2", model |-> "gemini-1.5-pro"]
RequestConfigs == IF variant = "gemini" THEN {G_CfgA, G_CfgB, G_CfgShort}
                  ELSE {S_CfgA, S_CfgB, S_CfgShort}

\* The replies the model gives in the request specification: one text that
\* strips to a label and one that strips to nothing; and every text, for
\* the classification specification.
ShortReplies == ResponsesOver([1..1 -> Chars])
AllReplies == ResponsesOver(Texts)
StubArgs == {<<>>, <<"cam1">>}

ValidateConfig(config) ==
  /\ last' = [op |-> "validate_config", config |-> config] @@
             (IF variant = "gemini" THEN G_validate_config(config)
              ELSE S_validate_config(config))
  /\ UNCHANGED <<variant, adapter, req>>

Reconfigure(cfg, deps) ==
  LET r == IF variant = "gemini" THEN G_reconfigure(adapter, cfg, deps)
           ELSE S_reconfigure(adapter, cfg, deps) IN
    /\ adapter' = r.self
    /\ last' = [op |-> "reconfigure", config |-> cfg, deps |-> deps,
                error |-> r.error]
    /\ UNCHANGED <<variant, req>>

\* What a finished request leaves to observe: its arguments (r), the object
\* as it was at the dependency lookup and at the reads of the model fields,
\* and how it ended.
Finished(r, out) ==
  [op |-> r.op, camera_name |-> r.camera_name, return_image |-> r.return_image,
   return_classifications |-> r.return_classifications,
   return_detections |-> r.return_detections,
   return_object_point_clouds |-> r.return_object_point_clouds,
   extra |-> r.extra, count |-> r.count, lookup |-> r.lookup, used |-> r.used,
   error |-> out.error, value |-> out.value, events |-> out.events,
   classified |-> out.classified]

\* A call of capture_all_from_camera, directly or from one of the two RPCs
\* that delegate to it, up to its first await.
StartCapture(op, camera_name, ri, rc, rd, ro, extra, prompt, count) ==
  /\ req.pc = "idle"
  /\ LET s == capture_all_lookup(adapter, camera_name)
         r == [pc |-> "get_image", op |-> op, camera_name |-> camera_name,
               return_image |-> ri, return_classifications |-> rc,
               return_detections |-> rd, return_object_point_clouds |-> ro,
               extra |-> extra, prompt |-> prompt, count |-> count,
               lookup |-> adapter, used |-> adapter, events |-> s.events,
               classified |-> <<>>]
     IN IF s.pending
        THEN req' = r /\ last' = Nothing
        ELSE req' = Idle /\ last' = Finished(r, s @@ [classified |-> <<>>])
  /\ UNCHANGED <<variant, adapter>>

capture_all_from_camera(camera_name, ri, rc, rd, ro, extra) ==
  StartCapture("capture_all_from_camera", camera_name, ri, rc, rd, ro, extra, "none", 1)

get_classifications_from_camera(cam, count) ==
  StartCapture("get_classifications_from_camera", cam, TRUE, TRUE, FALSE, FALSE, {},
               "none", count)

get_description_from_camera(cam, prompt) ==
  StartCapture("get_description_from_camera", cam, TRUE, FALSE, FALSE, FALSE, {},
               prompt, 1)

\* camera.get_image answers and the coroutine runs on to its next await or
\* to its end.  Both model calls of gemini/ and the classification call of
\* src/ go through the blocking client, so they do not suspend.
CameraReturns(cam, resp1, resp2) ==
  /\ req.pc = "get_image"
  /\ LET r == [req EXCEPT !.used = adapter]
         capture == IF variant = "gemini"
                    THEN G_capture_all_from_camera(adapter, r, cam, resp1)
                    ELSE S_capture_all_from_camera(adapter, r, cam, resp1)
         out == CASE r.op = "capture_all_from_camera" -> capture
                  [] r.op = "get_classifications_from_camera" -> classifications_of(capture)
                  [] r.op = "get_description_from_camera" ->
                       IF variant = "gemini" THEN G_describe_capture(adapter, r, capture, resp2)
                       ELSE S_describe_capture(adapter, r, capture)
     IN IF out.pending
        THEN /\ req' = [r EXCEPT !.pc = "generate_content", !.events = out.events,
                                 !.classified = out.classified]
             /\ last' = Nothing
        ELSE req' = Idle /\ last' = Finished(r, out)
  /\ UNCHANGED <<variant, adapter>>

\* src/: the awaited generate_content of _gemini answers.
ModelReturns(resp) ==
  /\ req.pc = "generate_content"
  /\ req' = Idle
  /\ last' = Finished(req, S_gemini(resp, req.events) @@ [classified |-> req.classified])
  /\ UNCHANGED <<variant, adapter>>

\* A direct call on an image the caller supplies.
Direct(op, image, prompt, count) ==
  [pc |-> "generate_content", op |-> op, camera_name |-> "none",
   return_image |-> FALSE, return_classifications |-> FALSE,
   return_detections |-> FALSE, return_object_point_clouds |-> FALSE,
   extra |-> {}, prompt |-> prompt, count |-> count, lookup |-> adapter,
   used |-> adapter, events |-> <<>>, classified |-> <<>>, image |-> image]

get_classifications(image, count, resp) ==
  /\ req.pc = "idle"
  /\ LET out == IF variant = "gemini" THEN G_get_classifications(adapter, image, count, resp)
                ELSE S_get_classifications(adapter, image, count, resp)
     IN last' = Finished(Direct("get_classifications", image, "none", count),
                         out @@ [classified |-> <<>>])
                @@ [image |-> image, response |-> resp]
  /\ UNCHANGED <<variant, adapter, req>>

get_description(image, prompt, resp) ==
  /\ req.pc = "idle"
  /\ LET r == Direct("get_description", image, prompt, 1)
         out == IF variant = "gemini" THEN G_get_description(adapter, image, prompt, resp)
                ELSE S_get_description_issue(adapter, image, prompt)
     IN IF out.pending
        THEN req' = [r EXCEPT !.events = out.events] /\ last' = Nothing
        ELSE req' = req /\ last' = Finished(r, out @@ [classified |-> <<>>])
  /\ UNCHANGED <<variant, adapter>>

\* One of the four RPCs that are not implemented, called while anything
\* else is going on.
Stub(op, a) ==
  LET out == CASE op = "get_detections_from_camera" -> get_detections_from_camera(adapter, a)
               [] op = "get_detections" -> get_detections(adapter, a)
               [] op = "get_object_point_clouds" -> get_object_point_clouds(adapter, a)
               [] op = "do_command" -> do_command(adapter, a)
  IN /\ adapter' = out.self
     /\ last' = [op |-> op, args |-> a, error |-> out.error, value |-> out.value,
                 events |-> out.events, before |-> adapter, inflight |-> req]
     /\ UNCHANGED <<variant, req>>

StubOps == {"get_detections_from_camera", "get_detections", "get_object_point_clouds",
            "do_command"}

NextValidate == \E config \in Configs : ValidateConfig(config)
SpecValidate == Init /\ [][NextValidate]_vars

NextReconfigure ==
  \E cfg \in Configs, deps \in DepSets : Reconfigure(cfg, deps)
SpecReconfigure == Init /\ [][NextReconfigure]_vars

NextClassify ==
  \/ \E cfg \in RequestConfigs, deps \in DepSets : Reconfigure(cfg, deps)
  \/ \E image \in Frames, count \in 0..MaxCount, resp \in AllReplies :
       get_classifications(image, count, resp)
SpecClassify == Init /\ [][NextClassify]_vars

Next ==
  \/ \E cfg \in RequestConfigs, deps \in DepSets : Reconfigure(cfg, deps)
  \/ \E cam \in Cameras, ri \in BOOLEAN, rc \in BOOLEAN, rd \in BOOLEAN, ro \in BOOLEAN,
        extra \in Extras : capture_all_from_camera(cam, ri, rc, rd, ro, extra)
  \/ \E cam \in Cameras, count \in 0..MaxCount : get_classifications_from_camera(cam, count)
  \/ \E cam \in Cameras, prompt \in Prompts : get_description_from_camera(cam, prompt)
  \/ \E image \in Frames, count \in 0..MaxCount, resp \in ShortReplies :
       get_classifications(image, count, resp)
  \/ \E image \in Frames, prompt \in Prompts, resp \in ShortReplies :
       get_description(image, prompt, resp)
  \/ \E cam \in CameraResults, resp1 \in ShortReplies, resp2 \in ShortReplies :
       CameraReturns(cam, resp1, resp2)
  \/ \E resp \in ShortReplies : ModelReturns(resp)
  \/ \E op \in StubOps, a \in StubArgs : Stub(op, a)

Spec == Init /\ [][Next]_vars

----------------------------------------------------------------------------
(* Claims *)

FromCameraOps == {"capture_all_from_camera", "get_classifications_from_camera",
                  "get_description_from_camera"}
ModelOps == FromCameraOps \cup {"get_classifications", "get_description"}

\* How many outbound calls of one kind a request made.
Calls(events, call) == Cardinality({ i \in 1..Len(events) : events[i].call = call })

LabelOf(c) == IF "label" \in DOMAIN c THEN c.label ELSE c.class_name

\* C1: validate_config, in both variants, fails with a configuration error
\* naming the first missing required key (gemini/: model_id, api_key,
\* camera_name; src/: api_key, camera_name, model, prompt) when a key is
\* missing, and otherwise returns exactly the list holding the configured
\* camera name; it changes no adapter state.
C1_validate_config ==
  last.op = "validate_config" =>
    LET keys == IF variant = "gemini" THEN <<"model_id", "api_key", "camera_name">>
                ELSE <<"api_key", "camera_name", "model", "prompt">>
        missing == { i \in 1..Len(keys) : keys[i] \notin DOMAIN last.config }
    IN /\ adapter = NewVision
       /\ IF missing # {}
          THEN \E i \in missing :
                 /\ \A j \in missing : i <= j
                 /\ last.error = Err("ValueError", keys[i])
          ELSE /\ last.error = NoError
               /\ last.value = <<last.config["camera_name"]>>

\* C2: capture_all_from_camera that returns has made exactly one camera
\* fetch and exactly one model call, holds the image iff return_image, a
\* non-empty classification list iff return_classifications, and no
\* detections and no object point clouds, whatever the four flags are.
C2_capture_flags ==
  (last.op = "capture_all_from_camera" /\ last.error = NoError) =>
    /\ Calls(last.events, "get_image") = 1
    /\ Calls(last.events, "generate_content") = 1
    /\ (last.value.image # "none") <=> last.return_image
    /\ (last.value.classifications # <<>>) <=> last.return_classifications
    /\ last.value.detections = <<>>
    /\ last.value.objects = <<>>

\* C3: a capture_all_from_camera, get_classifications_from_camera or
\* get_description_from_camera whose camera name is not in the injected
\* dependency map fails with the lookup error naming that camera, having
\* made no outbound call; and no such request is ever waiting on a camera
\* fetch or a model call.
C3_unknown_camera ==
  /\ (/\ last.op \in FromCameraOps
      /\ HasAttr(last.lookup, "_deps")
      /\ last.camera_name \notin last.lookup["_deps"])
     => (last.error = Err("KeyError", last.camera_name) /\ last.events = <<>>)
  /\ (req.pc # "idle" /\ req.op \in FromCameraOps)
     => (HasAttr(req.lookup, "_deps") /\ req.camera_name \in req.lookup["_deps"])

C3_witness ==
  /\ last.op = "get_description_from_camera"
  /\ HasAttr(last.lookup, "client")
  /\ last.camera_name \notin last.lookup["_deps"]
  /\ last.error.type = "KeyError"

\* l is t without its leading and trailing whitespace.
IsTrimOf(l, t) ==
  /\ l = <<>> \/ (l[1] \notin Whitespace /\ l[Len(l)] \notin Whitespace)
  /\ \E i \in 0..Len(t) :
       /\ i + Len(l) <= Len(t)
       /\ SubSeq(t, i + 1, i + Len(l)) = l
       /\ \A k \in 1..Len(t) : (k <= i \/ k > i + Len(l)) => t[k] \in Whitespace

\* C4: get_classifications, whenever its model call succeeds, returns
\* exactly one classification, whose label is the response text trimmed and
\* whose confidence is 1.0, for every image and every requested count.
C4_one_classification ==
  (/\ last.op = "get_classifications"
   /\ Calls(last.events, "generate_content") = 1
   /\ last.response.ok)
  => /\ last.error = NoError
     /\ Len(last.value) = 1
     /\ IsTrimOf(LabelOf(last.value[1]), last.response.text)
     /\ last.value[1].confidence = 1

C4_witness ==
  /\ last.op = "get_classifications"
  /\ last.count = 0
  /\ last.response.ok
  /\ last.response.text = <<" ", "a", " ">>
  /\ last.error = NoError
  /\ Len(last.value) = 1

C5_last_call_only ==
  (last.op = "reconfigure" /\ last.error = NoError) =>
    /\ DOMAIN adapter = DOMAIN last.config \cup {"name", "_deps", "client"}
    /\ \A k \in DOMAIN last.config : adapter[k] = last.config[k]
    /\ adapter["_deps"] = last.deps
    /\ adapter["client"] = Client(last.config["api_key"])

C5_no_partial_update ==
  (HasAttr(adapter, "client") /\ last'.op = "reconfigure" /\ last'.error # NoError)
    => adapter' = adapter

\* C5: after a reconfigure that succeeds every stored field is the one the
\* last call gave, and a reconfigure that fails on a missing key leaves the
\* stored configuration unchanged.
C5_reconfigure_replaces == [](C5_last_call_only) /\ [][C5_no_partial_update]_vars

\* C6: when a model call of a request fails, the request ends with that
\* same error and no result, that model call was the only one the request
\* made, and the request's camera fetch had returned before it was issued.
C6_model_failure ==
  (last.op \in ModelOps) =>
    \A i \in 1..Len(last.events) :
      last.events[i].call = "generate_content raised" =>
        /\ last.error = last.events[i].error
        /\ last.value = "none"
        /\ Calls(last.events, "generate_content") = 1
        /\ last.op \in FromCameraOps =>
             \E j \in 1..(i - 2) : last.events[j].call = "get_image returned"

\* C7: the four RPCs that are not implemented raise NotImplementedError for
\* every argument list and in every state of the adapter, make no outbound
\* call, and leave the adapter and the request in flight as they were.
C7_not_implemented ==
  (last.op \in StubOps) =>
    /\ last.error = Err("NotImplementedError", "none")
    /\ last.events = <<>>
    /\ adapter = last.before
    /\ req = last.inflight

C7_witness ==
  /\ last.op = "do_command"
  /\ last.args = <<>>
  /\ HasAttr(adapter, "client")
  /\ req.pc = "get_image"

\* C8: in gemini/, a capture_all_from_camera that has classified its frame
\* fails with NoCaptureToStoreError exactly when extra carries the
\* data-manager marker and the classification produced no non-empty label,
\* whatever the return flags are.
C8_no_capture_to_store ==
  (/\ variant = "gemini"
   /\ last.op = "capture_all_from_camera"
   /\ last.classified # <<>>)
  => (last.error.type = "NoCaptureToStoreError"
        <=> (from_dm_from_extra(last.extra) /\ ~AnyLabel(last.classified)))

\* The object c is one whose dependency map, client, model id and prompt
\* are the ones the finished request o used.
UsedFieldsOf(o, c) ==
  LET model == IF variant = "gemini" THEN "model_id" ELSE "model"
      calls == { i \in 1..Len(o.events) : o.events[i].call = "generate_content" }
  IN /\ HasAttr(c, "_deps") /\ c["_deps"] = o.lookup["_deps"]
     /\ \A i \in calls :
          /\ HasAttr(c, "client") /\ o.events[i].client = c["client"]
          /\ HasAttr(c, model) /\ o.events[i].model = c[model]
          /\ (variant = "src" /\ \A j \in calls : i <= j) =>
               (HasAttr(c, "prompt") /\ o.events[i].prompt = c["prompt"])

\* C9: a request that went through a camera fetch and returned has used the
\* dependency map, model id, prompt and client of one single configuration,
\* also when reconfigure ran while it was suspended.
C9_one_configuration ==
  (last.op \in FromCameraOps /\ last.error = NoError) =>
    (UsedFieldsOf(last, last.lookup) \/ UsedFieldsOf(last, last.used))

\* C10: a request that reaches the model and returns has made exactly one
\* model call and at most one camera fetch.
C10_one_model_call ==
  (last.op \in ModelOps /\ last.error = NoError) =>
    /\ Calls(last.events, "generate_content") = 1
    /\ Calls(last.events, "get_image") <= 1

====
